---- MODULE Spec2Model ----
(***************************************************************************)
(* A model of src/merge_csv.py: the chart-file merge pipeline              *)
(* (merge_by_country), its file-name metadata extractors and the aggregate *)
(* analyzers it runs over the merged table.                                *)
(*                                                                         *)
(* Strings are TLA+ strings; a character is a string of length one.        *)
(* A nullable number (a pandas NaN cell) is a sequence of length at most   *)
(* one: << >> is NaN, <<v>> is the value v.                                *)
(***************************************************************************)
EXTENDS Integers, Sequences, FiniteSets, TLC

VARIABLES
    pc,            \* position of the run inside merge_by_country
    csv_files,     \* the list built by os.walk (lines 48-52), with each file's content
    idx,           \* index of the next element of csv_files in the loop of line 57
    country_data,  \* the dict of line 55, as a sequence of [country, data] in insertion order
    country_csv,   \* the <COUNTRY>_data.csv files written at line 80
    merged_data,   \* the DataFrame merged_data / data (mutated in place by the analyzers)
    final_csv,     \* final_merged_data.csv (line 91); << >> of length 0 or 1
    out,           \* the analyzers' CSV files and insights_summary.txt, by file name
    log,           \* file names reported as skipped (line 63)
    file_name,     \* the argument of the file-name extractors
    extracted,     \* << >>, or <<[country, date]>> once the extractors have returned
    first_run      \* << >> in the first run over the folder; in a second run, the
                   \* output files as the first run left them

vars == <<pc, csv_files, idx, country_data, country_csv, merged_data, final_csv,
          out, log, file_name, extracted, first_run>>

(***************************************************************************)
(* Characters and strings                                                  *)
(***************************************************************************)

\* The characters of the modelled strings, in code-point order (the order
\* Python compares str values by).
Alphabet == "-.0123456789ABCDEFGHIJKLMNOPQRSTUVWXYZ_abcdefghijklmnopqrstuvwxyz"

Digits == "0123456789"
UpperCase == "ABCDEFGHIJKLMNOPQRSTUVWXYZ"
LowerCase == "abcdefghijklmnopqrstuvwxyz"

CharAt(s, k) == SubSeq(s, k, k)

\* Position of character c in string s, 0 when absent.
IndexIn(s, c) ==
    IF \E k \in 1..Len(s) : CharAt(s, k) = c
    THEN CHOOSE k \in 1..Len(s) : CharAt(s, k) = c
    ELSE 0

\* ord() of the modelled characters, tabulated once.
OrdTable == [k \in 1..Len(Alphabet) |-> CharAt(Alphabet, k)]

DigitChars == {CharAt(Digits, k) : k \in 1..Len(Digits)}

Ord(c) == CHOOSE k \in DOMAIN OrdTable : OrdTable[k] = c

IsDigit(c) == c \in DigitChars

DigitVal(c) == Ord(c) - Ord("0")

\* str.upper on one character
UpperChar(c) ==
    IF IndexIn(LowerCase, c) > 0 THEN CharAt(UpperCase, IndexIn(LowerCase, c)) ELSE c

RECURSIVE Upper(_)
Upper(s) ==
    IF Len(s) = 0 THEN s
    ELSE UpperChar(CharAt(s, 1)) \o Upper(SubSeq(s, 2, Len(s)))

\* str.split(sep) for a one-character separator: the maximal sep-free pieces,
\* empty pieces included.
RECURSIVE Split(_, _)
Split(s, sep) ==
    LET k == IndexIn(s, sep) IN
    IF k = 0 THEN <<s>>
    ELSE <<SubSeq(s, 1, k - 1)>> \o Split(SubSeq(s, k + 1, Len(s)), sep)

\* str.endswith
EndsWith(s, suffix) ==
    /\ Len(s) >= Len(suffix)
    /\ SubSeq(s, Len(s) - Len(suffix) + 1, Len(s)) = suffix

\* Python's < on str: lexicographic by code point.
RECURSIVE StrLess(_, _)
StrLess(a, b) ==
    IF Len(b) = 0 THEN FALSE
    ELSE IF Len(a) = 0 THEN TRUE
    ELSE IF CharAt(a, 1) = CharAt(b, 1)
         THEN StrLess(SubSeq(a, 2, Len(a)), SubSeq(b, 2, Len(b)))
         ELSE Ord(CharAt(a, 1)) < Ord(CharAt(b, 1))

(***************************************************************************)
(* File-name metadata extractors (lines 6-35)                              *)
(***************************************************************************)

\* Mutant of extract_country_from_filename: takes the first segment.
extract_country_first_segment(name) ==
    LET parts == Split(name, "-") IN
    IF Len(parts) > 1 THEN Upper(parts[1]) ELSE "UNKNOWN"

\* Python indexes from 0: parts[1] is the second segment.
extract_country_from_filename(name) ==
    LET parts == Split(name, "-") IN
    IF Len(parts) > 1 THEN Upper(parts[2]) ELSE "UNKNOWN"

\* The regular expression \d{4}-\d{2}-\d{2} matches at position k of s.
DatePatternAt(s, k) ==
    /\ k >= 1
    /\ k + 9 <= Len(s)
    /\ \A j \in {0, 1, 2, 3, 5, 6, 8, 9} : IsDigit(CharAt(s, k + j))
    /\ CharAt(s, k + 4) = "-"
    /\ CharAt(s, k + 7) = "-"

\* re.search: the position of the leftmost match, 0 when there is none.
ReSearchDate(s) ==
    IF \E k \in 1..Len(s) : DatePatternAt(s, k)
    THEN CHOOSE k \in 1..Len(s) :
            DatePatternAt(s, k) /\ \A j \in 1..(k - 1) : ~DatePatternAt(s, j)
    ELSE 0

\* The number written by the characters k..k+n-1 of s.
RECURSIVE NumberAt(_, _, _)
NumberAt(s, k, n) ==
    IF n = 0 THEN 0
    ELSE NumberAt(s, k, n - 1) * 10 + DigitVal(CharAt(s, k + n - 1))

YearOf(d) == NumberAt(d, 1, 4)
MonthOf(d) == NumberAt(d, 6, 2)
DayOf(d) == NumberAt(d, 9, 2)

IsLeapYear(y) == (y % 4 = 0 /\ y % 100 # 0) \/ y % 400 = 0

DaysInMonth(y, m) ==
    IF m = 2 THEN (IF IsLeapYear(y) THEN 29 ELSE 28)
    ELSE IF m \in {4, 6, 9, 11} THEN 30 ELSE 31

\* Mutant of ToDatetimeOk: checks the month only.
ToDatetimeOkMonthOnly(d) ==
    /\ YearOf(d) >= 1
    /\ MonthOf(d) \in 1..12

\* pd.to_datetime(d, format="%Y-%m-%d") returns (does not raise ValueError) for a
\* string d of the shape dddd-dd-dd.  The years of the modelled names lie inside
\* the range every pandas version represents as a Timestamp.
ToDatetimeOk(d) ==
    /\ YearOf(d) >= 1
    /\ MonthOf(d) \in 1..12
    /\ DayOf(d) \in 1..DaysInMonth(YearOf(d), MonthOf(d))

extract_date_from_filename(name) ==
    LET k == ReSearchDate(name) IN
    IF k > 0
    THEN LET date_part == SubSeq(name, k, k + 9) IN
         IF ToDatetimeOk(date_part) THEN date_part ELSE "INVALID_DATE"
    ELSE "UNKNOWN"

\* Mutant of DateIsSentinel: only the sentinel of a name without a date counts.
DateIsSentinelUnknownOnly(date) == date = "UNKNOWN"

\* The test of line 62.
DateIsSentinel(date) == date \in {"INVALID_DATE", "UNKNOWN"}

(***************************************************************************)
(* Tables                                                                  *)
(***************************************************************************)

\* A row is a record (column name -> cell); a table is a sequence of rows.
\* df[col] = v on one row: the column is added, or overwritten when present.
SetCol(r, col, v) == (col :> v) @@ r

HasCol(r, col) == col \in DOMAIN r

\* pd.concat([a, b], ignore_index=True)
Concat2(a, b) == a \o b

\* pd.concat(tables, ignore_index=True) for a non-empty sequence of tables
RECURSIVE ConcatAll(_)
ConcatAll(tables) ==
    IF Len(tables) = 0 THEN << >>
    ELSE Concat2(ConcatAll(SubSeq(tables, 1, Len(tables) - 1)), tables[Len(tables)])

\* The rows of table t that satisfy Keep, in order (boolean-mask selection).
Filter(t, Keep(_)) == SelectSeq(t, Keep)

\* sum() of the streams column, NaN cells skipped (0 when all are NaN).
RECURSIVE SumStreams(_)
SumStreams(t) ==
    IF Len(t) = 0 THEN 0
    ELSE SumStreams(SubSeq(t, 1, Len(t) - 1))
         + (IF Len(t[Len(t)].streams) = 0 THEN 0 ELSE t[Len(t)].streams[1])

\* Lexicographic order on tuples of strings of equal length (group keys).
RECURSIVE KeyLess(_, _)
KeyLess(a, b) ==
    IF Len(a) = 0 THEN FALSE
    ELSE IF a[1] = b[1] THEN KeyLess(Tail(a), Tail(b))
    ELSE StrLess(a[1], b[1])

\* The elements of a finite set of keys in increasing order (groupby sorts
\* its group keys).
RECURSIVE SortedKeys(_)
SortedKeys(S) ==
    IF S = {} THEN << >>
    ELSE LET m == CHOOSE x \in S : \A y \in S : y = x \/ KeyLess(x, y) IN
         <<m>> \o SortedKeys(S \ {m})

(***************************************************************************)
(* The input folder                                                        *)
(***************************************************************************)

\* The most files the input folder holds.
MaxFiles == 2

\* File names of the input folder.
FileNames ==
    { "regional-us-weekly-2023-01-01.csv",
      "regional-us-weekly-2023-02-01.csv",
      "regional-au-weekly-2023-06-15.csv",
      "regional--weekly-2023-01-01.csv",
      "regional-us-weekly-2023-02-30.csv",
      "noformat.csv" }

ChartRow(track, artist, s) ==
    [track_name |-> track, artist_names |-> artist, streams |-> s]

\* What pd.read_csv finds in a file: ok = FALSE is a file it cannot parse (it
\* raises), otherwise the rows under the header.
FileContents ==
    { [ok |-> FALSE, rows |-> << >>],
      [ok |-> TRUE, rows |-> << >>],
      [ok |-> TRUE, rows |-> <<ChartRow("A", "x", <<1000>>)>>],
      [ok |-> TRUE, rows |-> <<ChartRow("A", "x", <<2000>>)>>],
      [ok |-> TRUE, rows |-> <<ChartRow("B", "y", <<0>>), ChartRow("A", "x", << >>)>>] }

File(n, c) == [name |-> n, content |-> c]

\* The files os.walk may meet: the first US chart with every content, every
\* file name with a one-row chart, a second month of larger streams, a chart
\* with zero and missing streams, and one file that is not a CSV.
Files ==
    { File("regional-us-weekly-2023-01-01.csv", c) : c \in FileContents }
    \cup { File(n, [ok |-> TRUE, rows |-> <<ChartRow("A", "x", <<1000>>)>>]) : n \in FileNames }
    \cup { File("regional-us-weekly-2023-02-01.csv",
                [ok |-> TRUE, rows |-> <<ChartRow("A", "x", <<2000>>)>>]),
           File("regional-au-weekly-2023-06-15.csv",
                [ok |-> TRUE, rows |-> <<ChartRow("B", "y", <<0>>), ChartRow("A", "x", << >>)>>]),
           File("notes.txt", [ok |-> FALSE, rows |-> << >>]) }

\* Sequences of at most n elements of S.
SeqsUpTo(S, n) == UNION { [1..k -> S] : k \in 0..n }

(***************************************************************************)
(* merge_by_country (lines 38-105)                                         *)
(***************************************************************************)

NoOutputs ==
    [ max_streams_by_month |-> << >>,
      global_low_stream_month |-> << >>,
      global_common_artists |-> << >>,
      unique_artists_by_country |-> << >>,
      streams_by_month_year |-> << >>,
      monthly_top_tracks |-> << >>,
      monthly_common_artists_tracks |-> << >>,
      growth_rate_analysis |-> << >>,
      insights_summary |-> << >> ]

\* The state after construction: nothing read, nothing written.
Init ==
    /\ pc = "walk"
    /\ csv_files \in SeqsUpTo(Files, MaxFiles)
    /\ idx = 1
    /\ country_data = << >>
    /\ country_csv = << >>
    /\ merged_data = << >>
    /\ final_csv = << >>
    /\ out = NoOutputs
    /\ log = << >>
    /\ file_name = ""
    /\ extracted = << >>
    /\ first_run = << >>

\* Lines 48-52: keep the files whose name ends in .csv, in walk order.
IsCsv(f) == EndsWith(f.name, ".csv")

Walk ==
    /\ pc = "walk"
    /\ csv_files' = Filter(csv_files, IsCsv)
    /\ pc' = "merge"
    /\ UNCHANGED <<first_run, idx, country_data, country_csv, merged_data, final_csv, out, log,
                   file_name, extracted>>

\* Lines 67-68: every row of the file gets the file's country and date.
TagRows(rows, country, date) ==
    [k \in 1..Len(rows) |-> SetCol(SetCol(rows[k], "Country", country), "Date", date)]

\* Position of country in the dict, 0 when it is not a key.
KeyIndex(cd, country) ==
    IF \E k \in 1..Len(cd) : cd[k].country = country
    THEN CHOOSE k \in 1..Len(cd) : cd[k].country = country
    ELSE 0

\* Mutant of AddToCountry: a repeated country replaces its table.
AddToCountryOverwrite(cd, country, df) ==
    LET k == KeyIndex(cd, country) IN
    IF k = 0
    THEN Append(cd, [country |-> country, data |-> df])
    ELSE [cd EXCEPT ![k].data = df]

\* Lines 70-73
AddToCountry(cd, country, df) ==
    LET k == KeyIndex(cd, country) IN
    IF k = 0
    THEN Append(cd, [country |-> country, data |-> df])
    ELSE [cd EXCEPT ![k].data = Concat2(cd[k].data, df)]

\* Lines 57-64: the file's date is a sentinel; the file is reported and skipped.
SkipFile ==
    /\ pc = "merge"
    /\ idx <= Len(csv_files)
    /\ DateIsSentinel(extract_date_from_filename(csv_files[idx].name))
    /\ log' = Append(log, csv_files[idx].name)
    /\ idx' = idx + 1
    /\ UNCHANGED <<first_run, pc, csv_files, country_data, country_csv, merged_data, final_csv,
                   out, file_name, extracted>>

\* Line 66: pd.read_csv raises; nothing catches it and merge_by_country ends.
ReadCsvRaises ==
    /\ pc = "merge"
    /\ idx <= Len(csv_files)
    /\ ~DateIsSentinel(extract_date_from_filename(csv_files[idx].name))
    /\ ~csv_files[idx].content.ok
    /\ pc' = "failed"
    /\ UNCHANGED <<first_run, csv_files, idx, country_data, country_csv, merged_data, final_csv,
                   out, log, file_name, extracted>>

\* Lines 57-73 for a file that is read.
MergeFile ==
    /\ pc = "merge"
    /\ idx <= Len(csv_files)
    /\ LET name == csv_files[idx].name
           country == extract_country_from_filename(name)
           date == extract_date_from_filename(name)
       IN  /\ ~DateIsSentinel(date)
           /\ csv_files[idx].content.ok
           /\ country_data' =
                AddToCountry(country_data, country,
                             TagRows(csv_files[idx].content.rows, country, date))
    /\ idx' = idx + 1
    /\ UNCHANGED <<first_run, pc, csv_files, country_csv, merged_data, final_csv, out, log,
                   file_name, extracted>>

\* Lines 75-80: one <COUNTRY>_data.csv per key of the dict.
WriteCountryFiles ==
    /\ pc = "merge"
    /\ idx > Len(csv_files)
    /\ country_csv' = country_data
    /\ pc' = "concat"
    /\ UNCHANGED <<first_run, csv_files, idx, country_data, merged_data, final_csv, out, log,
                   file_name, extracted>>

\* pd.to_datetime(s, format="%Y-%m-%d", errors='coerce') on one cell: the
\* Timestamp (written by its ISO date), or NaT (<< >>).
ToTimestamp(s) ==
    IF Len(s) = 10 /\ DatePatternAt(s, 1) /\ ToDatetimeOk(s) THEN <<s>> ELSE << >>

DateNotNull(r) == Len(r.Date) > 0

\* Lines 84-87
CleanDates(t) ==
    Filter([k \in 1..Len(t) |-> SetCol(t[k], "Date", ToTimestamp(t[k].Date))],
           DateNotNull)

\* The tables of the dict, in insertion order (country_data.values()).
Values(cd) == [k \in 1..Len(cd) |-> cd[k].data]

\* Mutant of ConcatRaises: with nothing to concatenate the function returns.
ConcatReturnsEarly ==
    /\ pc = "concat"
    /\ Len(country_data) = 0
    /\ pc' = "done"
    /\ UNCHANGED <<first_run, csv_files, idx, country_data, country_csv, merged_data, final_csv,
                   out, log, file_name, extracted>>

\* Line 82 raises ValueError (no objects to concatenate) on an empty dict.
ConcatRaises ==
    /\ pc = "concat"
    /\ Len(country_data) = 0
    /\ pc' = "failed"
    /\ UNCHANGED <<first_run, csv_files, idx, country_data, country_csv, merged_data, final_csv,
                   out, log, file_name, extracted>>

\* Mutant of ToCsv: the file is opened for appending.
ToCsvAppend(file, df) ==
    IF Len(file) = 0 THEN <<df>> ELSE <<file[1] \o df>>

\* DataFrame.to_csv(path) with the default mode 'w': the file, whatever it held,
\* now holds df.
ToCsv(file, df) == <<df>>

\* Lines 82-91
ConcatAndClean ==
    /\ pc = "concat"
    /\ Len(country_data) > 0
    /\ merged_data' = CleanDates(ConcatAll(Values(country_data)))
    /\ final_csv' = ToCsv(final_csv, merged_data')
    /\ pc' = "by_month"
    /\ UNCHANGED <<first_run, csv_files, idx, country_data, country_csv, out, log, file_name,
                   extracted>>

(***************************************************************************)
(* Analyzers (lines 108-285).  Each receives merged_data itself, so a      *)
(* column it assigns is assigned in merged_data.                           *)
(***************************************************************************)

\* str(n) for a natural number n
RECURSIVE NatToStr(_)
NatToStr(n) ==
    IF n < 10 THEN CharAt(Digits, n + 1)
    ELSE NatToStr(n \div 10) \o CharAt(Digits, (n % 10) + 1)

\* .dt.to_period('M') of a Timestamp: year and month, "YYYY-MM"
ToPeriodM(ts) == SubSeq(ts[1], 1, 7)

\* .dt.year and .dt.month of a Timestamp, as written in the ISO date
DtYear(ts) == SubSeq(ts[1], 1, 4)
DtMonth(ts) == SubSeq(ts[1], 6, 7)

\* data['Month'] = pd.to_datetime(data['Date']).dt.to_period('M')
WithPeriodMonth(data) ==
    [k \in 1..Len(data) |-> SetCol(data[k], "Month", ToPeriodM(data[k].Date))]

\* groupby(['Country', 'Month']).agg(Total_Streams=('streams', 'sum')).reset_index()
MonthlyStreams(data) ==
    LET keys == SortedKeys({ <<data[k].Country, data[k].Month>> : k \in 1..Len(data) })
    IN  [g \in 1..Len(keys) |->
            [ Country |-> keys[g][1],
              Month |-> keys[g][2],
              Total_Streams |->
                SumStreams(Filter(data, LAMBDA r : <<r.Country, r.Month>> = keys[g])) ]]

\* Series.idxmax over the rows G of table ms: the first row holding the maximum.
IdxMax(ms, G) ==
    CHOOSE i \in G :
        \A j \in G : /\ ms[j].Total_Streams <= ms[i].Total_Streams
                     /\ (j < i => ms[j].Total_Streams < ms[i].Total_Streams)

\* Series.idxmin over the rows G of table ms: the first row holding the minimum.
IdxMin(ms, G) ==
    CHOOSE i \in G :
        \A j \in G : /\ ms[j].Total_Streams >= ms[i].Total_Streams
                     /\ (j < i => ms[j].Total_Streams > ms[i].Total_Streams)

\* Mutant of MaxStreamsByCountry: takes each country's minimum.
MinStreamsByCountry(ms) ==
    LET countries == SortedKeys({ <<ms[k].Country>> : k \in 1..Len(ms) })
    IN  [c \in 1..Len(countries) |->
            LET i == IdxMin(ms, { k \in 1..Len(ms) : ms[k].Country = countries[c][1] })
            IN  [ Country |-> ms[i].Country,
                  Month |-> ms[i].Month,
                  Max_Streams |-> ms[i].Total_Streams ]]

\* Lines 124-125: monthly_streams.loc[groupby('Country')['Total_Streams'].idxmax()]
MaxStreamsByCountry(ms) ==
    LET countries == SortedKeys({ <<ms[k].Country>> : k \in 1..Len(ms) })
    IN  [c \in 1..Len(countries) |->
            LET i == IdxMax(ms, { k \in 1..Len(ms) : ms[k].Country = countries[c][1] })
            IN  [ Country |-> ms[i].Country,
                  Month |-> ms[i].Month,
                  Max_Streams |-> ms[i].Total_Streams ]]

\* analyze_streaming_by_month (lines 108-127)
AnalyzeStreamingByMonth ==
    /\ pc = "by_month"
    /\ merged_data' = WithPeriodMonth(merged_data)
    /\ out' = [out EXCEPT !.max_streams_by_month =
                    <<MaxStreamsByCountry(MonthlyStreams(merged_data'))>>]
    /\ pc' = "global_low"
    /\ UNCHANGED <<first_run, csv_files, idx, country_data, country_csv, final_csv, log,
                   file_name, extracted>>

\* groupby('Month').agg(Total_Streams=('streams', 'sum')).reset_index()
GlobalMonthlyStreams(data) ==
    LET keys == SortedKeys({ <<data[k].Month>> : k \in 1..Len(data) })
    IN  [g \in 1..Len(keys) |->
            [ Month |-> keys[g][1],
              Total_Streams |->
                SumStreams(Filter(data, LAMBDA r : r.Month = keys[g][1])) ]]

\* analyze_global_low_streaming_month on a table without rows: idxmin of an
\* empty Series raises ValueError (line 145), after line 140 has run.
AnalyzeGlobalLowRaises ==
    /\ pc = "global_low"
    /\ Len(merged_data) = 0
    /\ merged_data' = WithPeriodMonth(merged_data)
    /\ pc' = "failed"
    /\ UNCHANGED <<first_run, csv_files, idx, country_data, country_csv, final_csv, out, log,
                   file_name, extracted>>

\* analyze_global_low_streaming_month (lines 130-147).  .loc[label] is one row, a
\* Series; to_csv(index=False) writes it as one column headed by the Series' name
\* (the row label), holding the row's values.
AnalyzeGlobalLow ==
    /\ pc = "global_low"
    /\ Len(merged_data) > 0
    /\ merged_data' = WithPeriodMonth(merged_data)
    /\ LET gms == GlobalMonthlyStreams(merged_data')
           i == IdxMin(gms, 1..Len(gms))
       IN  out' = [out EXCEPT !.global_low_stream_month =
                    << [ columns |-> <<NatToStr(i - 1)>>,
                         values |-> <<gms[i].Month, gms[i].Total_Streams>> ] >>]
    /\ pc' = "artists"
    /\ UNCHANGED <<first_run, csv_files, idx, country_data, country_csv, final_csv, log,
                   file_name, extracted>>

\* The set of values of column col over the rows of data that satisfy In.
ColumnSet(data, col, In(_)) == { data[k][col] : k \in { j \in 1..Len(data) : In(data[j]) } }

\* set.intersection(*sets) for a non-empty family of sets
Intersection(sets) == { x \in UNION sets : \A s \in sets : x \in s }

\* analyze_unique_and_common_artists (lines 150-172).  The table has rows here:
\* with none the run has ended at line 145.  list(set) has no fixed order, so
\* the two files are held as sets.
AnalyzeUniqueAndCommonArtists ==
    /\ pc = "artists"
    /\ Len(merged_data) > 0
    /\ LET countries == SortedKeys({ <<merged_data[k].Country>> : k \in 1..Len(merged_data) })
           Artists(c) == ColumnSet(merged_data, "artist_names", LAMBDA r : r.Country = c)
           global_artists == Intersection({ Artists(countries[c][1]) : c \in 1..Len(countries) })
       IN  out' = [out EXCEPT
                    !.global_common_artists = <<global_artists>>,
                    !.unique_artists_by_country =
                        << [c \in 1..Len(countries) |->
                              [ Country |-> countries[c][1],
                                Unique_Artists |-> Artists(countries[c][1]) \ global_artists ]] >>]
    /\ pc' = "month_year"
    /\ UNCHANGED <<first_run, csv_files, idx, country_data, country_csv, merged_data, final_csv,
                   log, file_name, extracted>>

\* Lines 187-188: data['Year'] = ...dt.year; data['Month'] = ...dt.month
WithYearAndMonth(data) ==
    [k \in 1..Len(data) |->
        SetCol(SetCol(data[k], "Year", DtYear(data[k].Date)), "Month", DtMonth(data[k].Date))]

\* analyze_streaming_by_month_year (lines 175-195)
AnalyzeStreamingByMonthYear ==
    /\ pc = "month_year"
    /\ merged_data' = WithYearAndMonth(merged_data)
    /\ LET data == merged_data'
           keys == SortedKeys({ <<data[k].Country, data[k].Year, data[k].Month>> :
                                  k \in 1..Len(data) })
       IN  out' = [out EXCEPT !.streams_by_month_year =
                    << [g \in 1..Len(keys) |->
                          [ Country |-> keys[g][1],
                            Year |-> keys[g][2],
                            Month |-> keys[g][3],
                            Total_Streams |->
                              SumStreams(Filter(data,
                                  LAMBDA r : <<r.Country, r.Year, r.Month>> = keys[g])) ]] >>]
    /\ pc' = "top"
    /\ UNCHANGED <<first_run, csv_files, idx, country_data, country_csv, final_csv, log,
                   file_name, extracted>>

\* The number of rows groupby(...).head keeps per group (line 218).
TopK == 5

\* Lines 213-215: groupby(['Country', 'Month', 'track_name', 'artist_names'])
\*   .agg(Total_Streams=('streams', 'sum')).reset_index()
MonthlyTopTracks(data) ==
    LET keys == SortedKeys({ <<data[k].Country, data[k].Month, data[k].track_name,
                               data[k].artist_names>> : k \in 1..Len(data) })
    IN  [g \in 1..Len(keys) |->
            [ Country |-> keys[g][1],
              Month |-> keys[g][2],
              track_name |-> keys[g][3],
              artist_names |-> keys[g][4],
              Total_Streams |->
                SumStreams(Filter(data,
                    LAMBDA r : <<r.Country, r.Month, r.track_name, r.artist_names>> = keys[g])) ]]

\* Row i of t comes before row j in
\* sort_values(['Country', 'Month', 'Total_Streams'], ascending=[True, True, False]).
TopOrderBefore(t, i, j) ==
    LET a == <<t[i].Country, t[i].Month>>
        b == <<t[j].Country, t[j].Month>>
    IN  \/ KeyLess(a, b)
        \/ a = b /\ t[i].Total_Streams > t[j].Total_Streams
        \/ a = b /\ t[i].Total_Streams = t[j].Total_Streams /\ i < j

\* Table t reordered by the strict total order Before on its row positions.
SortBy(t, Before(_, _, _)) ==
    [p \in 1..Len(t) |->
        t[CHOOSE i \in 1..Len(t) :
            Cardinality({ j \in 1..Len(t) : j # i /\ Before(t, j, i) }) = p - 1]]

\* groupby(['Country', 'Month']).head(n): the first n rows of every group, in
\* the order of the table.
HeadPerGroup(t, n) ==
    LET early(k) == Cardinality({ j \in 1..(k - 1) :
                        t[j].Country = t[k].Country /\ t[j].Month = t[k].Month }) < n
        kept == { k \in 1..Len(t) : early(k) }
    IN  [p \in 1..Cardinality(kept) |->
            t[CHOOSE k \in kept : Cardinality({ j \in kept : j < k }) = p - 1]]

\* Lines 217-218.  Line 217 binds the sorted table to top_monthly_tracks; line 218
\* rebinds that name to head(5) of monthly_top_tracks, the table before sorting.
TopMonthlyTracks(monthly_top_tracks) ==
    LET line217 == SortBy(monthly_top_tracks, TopOrderBefore)
        line218 == HeadPerGroup(monthly_top_tracks, TopK)
    IN  line218

\* analyze_monthly_top_artists_and_tracks (lines 198-221)
AnalyzeMonthlyTop ==
    /\ pc = "top"
    /\ merged_data' = WithPeriodMonth(merged_data)
    /\ out' = [out EXCEPT !.monthly_top_tracks =
                    <<TopMonthlyTracks(MonthlyTopTracks(merged_data'))>>]
    /\ pc' = "common"
    /\ UNCHANGED <<first_run, csv_files, idx, country_data, country_csv, final_csv, log,
                   file_name, extracted>>

\* analyze_common_artists_and_tracks_by_month (lines 224-249)
AnalyzeCommonByMonth ==
    /\ pc = "common"
    /\ merged_data' = WithPeriodMonth(merged_data)
    /\ LET data == merged_data'
           months == SortedKeys({ <<data[k].Month>> : k \in 1..Len(data) })
           Countries(m) == ColumnSet(data, "Country", LAMBDA r : r.Month = m)
           Common(col, m) ==
               Intersection({ ColumnSet(data, col, LAMBDA r : r.Month = m /\ r.Country = c) :
                                c \in Countries(m) })
       IN  out' = [out EXCEPT !.monthly_common_artists_tracks =
                    << [g \in 1..Len(months) |->
                          [ Month |-> months[g][1],
                            Common_Artists |-> Common("artist_names", months[g][1]),
                            Common_Tracks |-> Common("track_name", months[g][1]) ]] >>]
    /\ pc' = "growth"
    /\ UNCHANGED <<first_run, csv_files, idx, country_data, country_csv, final_csv, log,
                   file_name, extracted>>

\* Line 268: data['streams'] = data['streams'].fillna(0)
FillNa0(data) ==
    [k \in 1..Len(data) |->
        IF Len(data[k].streams) = 0 THEN SetCol(data[k], "streams", <<0>>) ELSE data[k]]

SeriesKey(r) == <<r.Country, r.artist_names, r.track_name>>

\* Row i of t comes before row j in
\* sort_values(by=['Country', 'artist_names', 'track_name', 'Date']); rows equal in
\* all four keep their order.
GrowthOrderBefore(t, i, j) ==
    LET a == SeriesKey(t[i]) \o <<t[i].Date[1]>>
        b == SeriesKey(t[j]) \o <<t[j].Date[1]>>
    IN  KeyLess(a, b) \/ (a = b /\ i < j)

\* A float64 growth rate is held as the exact fraction num/den of the real result
\* and the sign ulp of the rounding error the float computation adds to it where
\* the fraction is a threshold of determine_trend_status.  den = 0 is an infinity
\* of the sign of num.
Rate(n, d, u) == [num |-> n, den |-> d, ulp |-> u]

\* (cur / prev - 1) * 100 in float64 arithmetic for the ratios 21/20 and 19/20:
\* 1.05 and 0.95 round to nearest as 1.05 + 4.4e-17 and 0.95 - 4.4e-17, so the
\* results are 5.000000000000004 and -5.000000000000004.  For any other ratio of
\* integers below 2^31 the rounding error is far smaller than the distance of the
\* real result from 5 and -5.
RoundingSign(prev, cur) ==
    IF 20 * cur = 21 * prev THEN 1
    ELSE IF 20 * cur = 19 * prev THEN -1
    ELSE 0

\* pct_change().fillna(0) * 100 for one row: prev is << >> on the first row of a
\* series (NaN, filled with 0); 0/0 is NaN as well, x/0 an infinity.
PctChange100(prev, cur) ==
    IF Len(prev) = 0 THEN Rate(0, 1, 0)
    ELSE IF prev[1] = 0
         THEN (IF cur = 0 THEN Rate(0, 1, 0) ELSE Rate(IF cur > 0 THEN 1 ELSE -1, 0, 0))
    ELSE IF prev[1] > 0
         THEN Rate(100 * (cur - prev[1]), prev[1], RoundingSign(prev[1], cur))
    ELSE Rate(100 * (prev[1] - cur), 0 - prev[1], RoundingSign(prev[1], cur))

\* growth_rate > k and growth_rate < k for an integer k
RateGt(g, k) ==
    IF g.den = 0 THEN g.num > 0
    ELSE g.num > k * g.den \/ (g.num = k * g.den /\ g.ulp > 0)

RateLt(g, k) ==
    IF g.den = 0 THEN g.num < 0
    ELSE g.num < k * g.den \/ (g.num = k * g.den /\ g.ulp < 0)

\* Lines 272-278
determine_trend_status(growth_rate) ==
    IF RateGt(growth_rate, 5) THEN "Growth"
    ELSE IF RateLt(growth_rate, -5) THEN "Decline"
    ELSE "Stable"

\* Mutant of PrevInSeries: pct_change over the whole sorted table.
PrevInTable(t, k) ==
    IF k = 1 THEN << >> ELSE t[k - 1].streams

\* The streams of the row before row k in k's series, << >> when k is the first.
PrevInSeries(t, k) ==
    LET before == { j \in 1..(k - 1) : SeriesKey(t[j]) = SeriesKey(t[k]) }
    IN  IF before = {} THEN << >>
        ELSE t[CHOOSE j \in before : \A i \in before : i <= j].streams

\* Lines 269-282
GrowthAnalysis(data) ==
    LET sorted == SortBy(data, GrowthOrderBefore)
    IN  [k \in 1..Len(sorted) |->
            LET g == PctChange100(PrevInSeries(sorted, k), sorted[k].streams[1])
            IN  [ Country |-> sorted[k].Country,
                  artist_names |-> sorted[k].artist_names,
                  track_name |-> sorted[k].track_name,
                  Date |-> sorted[k].Date,
                  streams |-> sorted[k].streams,
                  Growth_Rate |-> g,
                  Trend_Status |-> determine_trend_status(g) ]]

\* analyze_growth_rate_of_artists_and_tracks (lines 252-285)
AnalyzeGrowthRate ==
    /\ pc = "growth"
    /\ merged_data' = FillNa0(merged_data)
    /\ out' = [out EXCEPT !.growth_rate_analysis = <<GrowthAnalysis(merged_data')>>]
    /\ pc' = "insights"
    /\ UNCHANGED <<first_run, csv_files, idx, country_data, country_csv, final_csv, log,
                   file_name, extracted>>

(***************************************************************************)
(* generate_insights (lines 317-346, the definition in force)              *)
(***************************************************************************)

\* The body of the try raises: idxmax of an empty Max_Streams column (line 327),
\* or the column 'Month' is looked up in a file that has none (line 333).
InsightsRaises(o) ==
    \/ Len(o.max_streams_by_month) > 0 /\ Len(o.max_streams_by_month[1]) = 0
    \/ /\ Len(o.global_low_stream_month) > 0
       /\ \A c \in 1..Len(o.global_low_stream_month[1].columns) :
             o.global_low_stream_month[1].columns[c] # "Month"

\* The except clause of line 345 swallows whatever the body raises; the summary
\* is written at line 340 only when nothing was raised before it.
GenerateInsights ==
    /\ pc = "insights"
    /\ out' = IF InsightsRaises(out) THEN out
              ELSE [out EXCEPT !.insights_summary =
                        << [ max_streams |-> out.max_streams_by_month,
                             low_month |-> out.global_low_stream_month,
                             global_artists |-> out.global_common_artists ] >>]
    /\ pc' = "done"
    /\ UNCHANGED <<first_run, csv_files, idx, country_data, country_csv, merged_data, final_csv,
                   log, file_name, extracted>>

(***************************************************************************)
(* Specifications                                                          *)
(***************************************************************************)

Next ==
    \/ Walk
    \/ SkipFile
    \/ ReadCsvRaises
    \/ MergeFile
    \/ WriteCountryFiles
    \/ ConcatRaises
    \/ ConcatAndClean
    \/ AnalyzeStreamingByMonth
    \/ AnalyzeGlobalLowRaises
    \/ AnalyzeGlobalLow
    \/ AnalyzeUniqueAndCommonArtists
    \/ AnalyzeStreamingByMonthYear
    \/ AnalyzeMonthlyTop
    \/ AnalyzeCommonByMonth
    \/ AnalyzeGrowthRate
    \/ GenerateInsights

\* One run of merge_by_country over an input folder.
Spec == Init /\ [][Next]_vars

\* The most '-'-separated pieces a file name of ExtractNames is put together from.
MaxParts == 4

\* Pieces of file names: words, an empty piece, and dates that are valid, invalid
\* by the day (30 February, 29 February of the years 2023 and 2100) or by the month.
NameParts ==
    { "regional", "au", "", "weekly", "noformat",
      "2023-06-15", "2023-02-30", "2024-02-29", "2100-02-29", "2023-13-01" }

\* '-'.join(parts)
RECURSIVE JoinDash(_)
JoinDash(parts) ==
    IF Len(parts) = 0 THEN ""
    ELSE IF Len(parts) = 1 THEN parts[1]
    ELSE parts[1] \o "-" \o JoinDash(Tail(parts))

\* The file names the extractors are applied to.
ExtractNames ==
    { JoinDash(parts) \o ".csv" : parts \in SeqsUpTo(NameParts, MaxParts) \ {<< >>} }

InitExtract ==
    /\ pc = "extract"
    /\ file_name \in ExtractNames
    /\ extracted = << >>
    /\ first_run = << >>
    /\ csv_files = << >>
    /\ idx = 1
    /\ country_data = << >>
    /\ country_csv = << >>
    /\ merged_data = << >>
    /\ final_csv = << >>
    /\ out = NoOutputs
    /\ log = << >>

\* Lines 59-60: both extractors applied to one file name.
Extract ==
    /\ pc = "extract"
    /\ extracted' = << [ country |-> extract_country_from_filename(file_name),
                         date |-> extract_date_from_filename(file_name) ] >>
    /\ pc' = "extracted"
    /\ UNCHANGED <<first_run, csv_files, idx, country_data, country_csv, merged_data, final_csv,
                   out, log, file_name>>

\* The extractors applied to a file name.
SpecExtract == InitExtract /\ [][Extract]_vars

\* The most tracks one chart file of TopFolders lists.
MaxTracks == 6

TopStreams == {10, 20, 30}

\* A US chart file of January 2023 listing the tracks A, B, ... with the streams ss.
TopFile(ss) ==
    [ name |-> "regional-us-weekly-2023-01-01.csv",
      content |-> [ ok |-> TRUE,
                    rows |-> [k \in 1..Len(ss) |->
                                ChartRow(CharAt(UpperCase, k), "x", <<ss[k]>>)] ] ]

\* A second file: a later week of the same country and month, or another country.
SecondFiles ==
    { [ name |-> "regional-us-weekly-2023-01-08.csv",
        content |-> [ok |-> TRUE, rows |-> <<ChartRow("F", "x", <<25>>)>>] ],
      [ name |-> "regional-au-weekly-2023-06-15.csv",
        content |-> [ok |-> TRUE, rows |-> <<ChartRow("A", "x", <<10>>)>>] ] }

\* Input folders for the monthly top tracks: a chart file of up to MaxTracks
\* tracks, alone or followed by a second file; and the folders of at most one
\* file of Files.
TopFolders ==
    { <<TopFile(ss)>> : ss \in SeqsUpTo(TopStreams, MaxTracks) }
    \cup { <<TopFile(ss), g>> : ss \in SeqsUpTo(TopStreams, MaxTracks), g \in SecondFiles }
    \cup SeqsUpTo(Files, 1)

InitTop ==
    /\ pc = "walk"
    /\ csv_files \in TopFolders
    /\ idx = 1
    /\ country_data = << >>
    /\ country_csv = << >>
    /\ merged_data = << >>
    /\ final_csv = << >>
    /\ out = NoOutputs
    /\ log = << >>
    /\ file_name = ""
    /\ extracted = << >>
    /\ first_run = << >>

\* Runs of merge_by_country over the folders of TopFolders.
SpecTop == InitTop /\ [][Next]_vars

\* The most weekly files of one track a folder of GrowthFolders holds.
MaxSeries == 3

GrowthStreams == {0, 94, 95, 100, 105, 106}

\* The US chart file of the first day of month m of 2023 (m < 10), with one row:
\* track A with s streams.
SeriesFile(m, s) ==
    [ name |-> "regional-us-weekly-2023-0" \o NatToStr(m) \o "-01.csv",
      content |-> [ok |-> TRUE, rows |-> <<ChartRow("A", "x", <<s>>)>>] ]

PairStreams == { << >>, <<100>>, <<106>> }

\* The US chart file of the first day of month m of 2023 listing two tracks, A
\* and B, with the streams sa and sb (<< >> is a missing value).
PairFile(m, sa, sb) ==
    [ name |-> "regional-us-weekly-2023-0" \o NatToStr(m) \o "-01.csv",
      content |-> [ok |-> TRUE,
                   rows |-> <<ChartRow("A", "x", sa), ChartRow("B", "y", sb)>>] ]

\* Input folders for the growth rates: the files of the first n months, met by
\* os.walk in ascending or in descending order of date; two files of two tracks
\* each, in either order; and the folders of at most one file of Files.
GrowthFolders ==
    UNION { { [k \in 1..n |-> SeriesFile(IF up THEN k ELSE n + 1 - k, ss[k])] :
                up \in BOOLEAN, ss \in [1..n -> GrowthStreams] } : n \in 0..MaxSeries }
    \cup { <<PairFile(ms[1], a1, b1), PairFile(ms[2], a2, b2)>> :
             ms \in {<<1, 2>>, <<2, 1>>},
             a1 \in PairStreams, b1 \in PairStreams,
             a2 \in PairStreams, b2 \in PairStreams }
    \cup SeqsUpTo(Files, 1)

InitGrowth ==
    /\ pc = "walk"
    /\ csv_files \in GrowthFolders
    /\ idx = 1
    /\ country_data = << >>
    /\ country_csv = << >>
    /\ merged_data = << >>
    /\ final_csv = << >>
    /\ out = NoOutputs
    /\ log = << >>
    /\ file_name = ""
    /\ extracted = << >>
    /\ first_run = << >>

\* Runs of merge_by_country over the folders of GrowthFolders.
SpecGrowth == InitGrowth /\ [][Next]_vars

\* A small pool of files for the folders that are merged twice.
TwiceFiles ==
    { f \in Files :
        \/ f.name \in { "regional-us-weekly-2023-02-01.csv",
                        "regional-au-weekly-2023-06-15.csv",
                        "regional-us-weekly-2023-02-30.csv",
                        "notes.txt" }
        \/ /\ f.name = "regional-us-weekly-2023-01-01.csv"
           /\ f.content.rows \in { << >>, <<ChartRow("A", "x", <<1000>>)>> } }

InitTwice ==
    /\ pc = "walk"
    /\ csv_files \in SeqsUpTo(TwiceFiles, MaxFiles)
    /\ idx = 1
    /\ country_data = << >>
    /\ country_csv = << >>
    /\ merged_data = << >>
    /\ final_csv = << >>
    /\ out = NoOutputs
    /\ log = << >>
    /\ file_name = ""
    /\ extracted = << >>
    /\ first_run = << >>

\* Lines 348-352 once more: merge_by_country is called again on the same folders
\* after a first run has returned or raised.  The input folder lists the same
\* files in the same order; the files the first run wrote are on disk; the
\* locals of the function start afresh.
Rerun ==
    /\ pc \in {"done", "failed"}
    /\ first_run = << >>
    /\ first_run' = <<[country_csv |-> country_csv, final_csv |-> final_csv]>>
    /\ pc' = "walk"
    /\ idx' = 1
    /\ country_data' = << >>
    /\ merged_data' = << >>
    /\ log' = << >>
    /\ UNCHANGED <<csv_files, country_csv, final_csv, out, file_name, extracted>>

NextTwice == Next \/ Rerun

\* Two runs of merge_by_country in succession over one folder.
SpecTwice == InitTwice /\ [][NextTwice]_vars

(***************************************************************************)
(* Properties of the merge                                                 *)
(***************************************************************************)

\* The extractor's result for name is a date, not a sentinel.
YieldsDate(name) ==
    LET d == extract_date_from_filename(name) IN Len(d) = 10 /\ DatePatternAt(d, 1)

\* The rows the first n files owe to country C: those of the files that yield a
\* date and whose extracted country is C, in file order, each with Country = C
\* and Date = its own file's date.
RECURSIVE ExpectedCountryRows(_, _, _)
ExpectedCountryRows(files, n, C) ==
    IF n = 0 THEN << >>
    ELSE LET f == files[n]
             before == ExpectedCountryRows(files, n - 1, C)
         IN  IF YieldsDate(f.name) /\ extract_country_from_filename(f.name) = C
             THEN before \o
                  [k \in 1..Len(f.content.rows) |->
                      [ track_name |-> f.content.rows[k].track_name,
                        artist_names |-> f.content.rows[k].artist_names,
                        streams |-> f.content.rows[k].streams,
                        Country |-> C,
                        Date |-> extract_date_from_filename(f.name) ]]
             ELSE before

\* The countries of the first n files that yield a date.
ExpectedCountries(files, n) ==
    { extract_country_from_filename(files[k].name) :
        k \in { j \in 1..n : YieldsDate(files[j].name) } }

\* cd holds exactly the per-country tables the first n files owe.
TablesMatchFiles(cd, files, n) ==
    /\ { cd[k].country : k \in 1..Len(cd) } = ExpectedCountries(files, n)
    /\ \A j, k \in 1..Len(cd) : cd[j].country = cd[k].country => j = k
    /\ \A k \in 1..Len(cd) : cd[k].data = ExpectedCountryRows(files, n, cd[k].country)

\* C1: at every point of the file loop and after it, each country's table is
\* exactly the rows of the non-skipped files processed so far whose extracted
\* country it is, in file order, every row tagged with that country and with the
\* date of its own file name; the per-country files written are these tables.
C1_CountryTablesAreTheFilesRows ==
    /\ pc # "walk" => TablesMatchFiles(country_data, csv_files, idx - 1)
    /\ pc \notin {"walk", "merge", "failed"} =>
          /\ idx = Len(csv_files) + 1
          /\ TablesMatchFiles(country_csv, csv_files, Len(csv_files))

\* Two files of one country, with different dates, have been merged and written.
C1_Witness ==
    /\ pc = "concat"
    /\ \E k \in 1..Len(country_csv) :
          \E a, b \in 1..Len(country_csv[k].data) :
              /\ a < b
              /\ country_csv[k].data[a].Date # country_csv[k].data[b].Date
              /\ country_csv[k].data[a].Date = extract_date_from_filename(csv_files[1].name)

\* The file the loop is at yields no date.
AtBadDateFile ==
    pc = "merge" /\ idx <= Len(csv_files) /\ ~YieldsDate(csv_files[idx].name)

\* The number of rows of the first n files that yield a date.
RECURSIVE RowsOfDatedFiles(_, _)
RowsOfDatedFiles(files, n) ==
    IF n = 0 THEN 0
    ELSE RowsOfDatedFiles(files, n - 1)
         + (IF YieldsDate(files[n].name) THEN Len(files[n].content.rows) ELSE 0)

\* The step taken at a file without a date reports the file, goes on to the next
\* file inside the loop and changes no table.
C2_SkipStep ==
    AtBadDateFile =>
        /\ pc' = "merge"
        /\ idx' = idx + 1
        /\ log' = Append(log, csv_files[idx].name)
        /\ UNCHANGED <<csv_files, country_data, country_csv, merged_data, final_csv>>

\* Once the merged table is written every file has been visited, and the table
\* holds the rows of the dated files and no other row.
C2_MergedHasNoSkippedRows ==
    Len(final_csv) = 1 =>
        /\ idx = Len(csv_files) + 1
        /\ Len(final_csv[1]) = RowsOfDatedFiles(csv_files, Len(csv_files))

\* C2: a file whose name yields an invalid or absent date is skipped: it adds no
\* row to any per-country table or to the merged table, and the loop goes on
\* with the files after it.
C2_BadDateFileIsSkipped ==
    [][C2_SkipStep]_vars /\ [](C2_MergedHasNoSkippedRows)

\* A file with rows was skipped for its date and the file after it was merged
\* and written.
C2_Witness ==
    /\ pc = "concat"
    /\ Len(csv_files) = 2
    /\ log = <<csv_files[1].name>>
    /\ Len(csv_files[1].content.rows) > 0
    /\ Len(country_csv) = 1
    /\ Len(country_csv[1].data) > 0

\* C3 (as the claim states it): a file whose name yields a date and that
\* pd.read_csv cannot parse is reported and skipped, and the loop goes on.
C3_UnparseableFileIsSkipped ==
    [][ (/\ pc = "merge"
         /\ idx <= Len(csv_files)
         /\ YieldsDate(csv_files[idx].name)
         /\ ~csv_files[idx].content.ok)
        => (/\ pc' = "merge"
            /\ idx' = idx + 1
            /\ log' = Append(log, csv_files[idx].name)
            /\ country_data' = country_data) ]_vars

\* The row has streams > 0 and a date that is a calendar date.
CleanRow(r) ==
    /\ Len(r.streams) = 1
    /\ r.streams[1] > 0
    /\ Len(r.Date) = 1
    /\ DatePatternAt(r.Date[1], 1)
    /\ MonthOf(r.Date[1]) \in 1..12
    /\ DayOf(r.Date[1]) \in 1..DaysInMonth(YearOf(r.Date[1]), MonthOf(r.Date[1]))

\* C4 (as the claim states it): every row of the table written to
\* final_merged_data.csv and handed to the analyzers has streams > 0 (not null,
\* zero or negative) and a valid, non-null date.
C4_CleanedRowsArePositiveAndDated ==
    /\ Len(final_csv) = 1 => \A k \in 1..Len(final_csv[1]) : CleanRow(final_csv[1][k])
    /\ pc = "by_month" => \A k \in 1..Len(merged_data) : CleanRow(merged_data[k])

\* C9 (as the claim states it): no row of a per-country table or of the merged
\* table has an empty Country.
C9_CountryIsNeverEmpty ==
    /\ \A c \in 1..Len(country_data) :
          \A k \in 1..Len(country_data[c].data) : country_data[c].data[k].Country # ""
    /\ \A c \in 1..Len(country_csv) :
          \A k \in 1..Len(country_csv[c].data) : country_csv[c].data[k].Country # ""
    /\ \A k \in 1..Len(merged_data) : merged_data[k].Country # ""

\* The input gives the merge no row: every file is no CSV, is skipped for its
\* date, or has no rows; or the merged table was written without rows.
EmptyDataset ==
    \/ \A k \in 1..Len(csv_files) :
          \/ ~IsCsv(csv_files[k])
          \/ ~YieldsDate(csv_files[k].name)
          \/ Len(csv_files[k].content.rows) = 0
    \/ Len(final_csv) = 1 /\ Len(final_csv[1]) = 0

\* With an empty dataset the run is under way no further than
\* analyze_global_low_streaming_month, or has failed, and no insights summary
\* exists.
C10_NeverCompletes ==
    EmptyDataset =>
        /\ pc \in {"walk", "merge", "concat", "by_month", "global_low", "failed"}
        /\ Len(out.insights_summary) = 0

\* With an empty dataset, the step that concatenates no table and the step of
\* analyze_global_low_streaming_month end the run as failed.
C10_FailStep ==
    /\ (EmptyDataset /\ pc = "concat" /\ Len(country_data) = 0) => pc' = "failed"
    /\ (EmptyDataset /\ pc = "global_low") => pc' = "failed"

\* C10: with an empty dataset the run never completes normally and never writes
\* an insights summary: it fails where nothing is there to concatenate, or else
\* in analyze_global_low_streaming_month.
C10_EmptyDatasetFailsTheRun ==
    [](C10_NeverCompletes) /\ [][C10_FailStep]_vars

\* A run over files without rows wrote an empty merged table and then failed.
C10_Witness ==
    /\ pc = "failed"
    /\ Len(csv_files) > 0
    /\ Len(final_csv) = 1
    /\ Len(final_csv[1]) = 0

\* sum of the streams of the rows of t at the positions in S, NaN counted as 0
RECURSIVE TotalOver(_, _)
TotalOver(t, S) ==
    IF S = {} THEN 0
    ELSE LET k == CHOOSE x \in S : TRUE
         IN  (IF Len(t[k].streams) = 0 THEN 0 ELSE t[k].streams[1]) + TotalOver(t, S \ {k})

\* The streams country C has in month m ("YYYY-MM") in table t.
CountryMonthTotal(t, C, m) ==
    TotalOver(t, { k \in 1..Len(t) : t[k].Country = C /\ SubSeq(t[k].Date[1], 1, 7) = m })

MonthsOfCountry(t, C) ==
    { SubSeq(t[k].Date[1], 1, 7) : k \in { j \in 1..Len(t) : t[j].Country = C } }

\* The folder of the scenario: two US files, 1000 streams in January 2023 and
\* 2000 in February 2023.
ScenarioFolder ==
    << [ name |-> "regional-us-weekly-2023-01-01.csv",
         content |-> [ok |-> TRUE, rows |-> <<ChartRow("A", "x", <<1000>>)>>] ],
       [ name |-> "regional-us-weekly-2023-02-01.csv",
         content |-> [ok |-> TRUE, rows |-> <<ChartRow("A", "x", <<2000>>)>>] ] >>

\* C7: max_streams_by_month.csv has exactly one row for every country of the
\* merged table and no other row; the row names a month of that country whose
\* summed streams are the largest of the country's months, and that sum.  The
\* scenario's folder gives US, 2023-02, 2000.
C7_MaxStreamMonthPerCountry ==
    Len(out.max_streams_by_month) = 1 =>
        LET t == final_csv[1]
            res == out.max_streams_by_month[1]
        IN  /\ \A k \in 1..Len(t) :
                  Cardinality({ r \in 1..Len(res) : res[r].Country = t[k].Country }) = 1
            /\ \A r \in 1..Len(res) :
                  /\ res[r].Month \in MonthsOfCountry(t, res[r].Country)
                  /\ res[r].Max_Streams = CountryMonthTotal(t, res[r].Country, res[r].Month)
                  /\ \A m \in MonthsOfCountry(t, res[r].Country) :
                        CountryMonthTotal(t, res[r].Country, m) <= res[r].Max_Streams
            /\ csv_files = ScenarioFolder =>
                  res = <<[Country |-> "US", Month |-> "2023-02", Max_Streams |-> 2000]>>

\* The scenario has run and its result is written.
C7_Witness ==
    /\ csv_files = ScenarioFolder
    /\ out.max_streams_by_month =
          << <<[Country |-> "US", Month |-> "2023-02", Max_Streams |-> 2000]>> >>

(***************************************************************************)
(* Properties of the file-name extractors                                  *)
(***************************************************************************)

DashPositions(name) == { k \in 1..Len(name) : CharAt(name, k) = "-" }

\* The piece of name between its first '-' and its second (or its end).
SecondSegment(name) ==
    LET D == DashPositions(name)
        p1 == CHOOSE k \in D : \A j \in D : k <= j
        after == { k \in D : k > p1 }
        p2 == IF after = {} THEN Len(name) + 1
              ELSE CHOOSE k \in after : \A j \in after : k <= j
    IN  SubSeq(name, p1 + 1, p2 - 1)

\* d, of the shape dddd-dd-dd, is a date of the calendar.
IsCalendarDate(d) ==
    LET y == NumberAt(d, 1, 4)
        m == NumberAt(d, 6, 2)
        dd == NumberAt(d, 9, 2)
    IN  /\ y >= 1
        /\ \/ m \in {1, 3, 5, 7, 8, 10, 12} /\ dd \in 1..31
           \/ m \in {4, 6, 9, 11} /\ dd \in 1..30
           \/ m = 2 /\ dd \in 1..28
           \/ m = 2 /\ dd = 29 /\ (y % 400 = 0 \/ (y % 4 = 0 /\ y % 100 # 0))

\* C8: the extractors return for every file name (they do not raise); the country
\* is the upper-cased second '-'-separated segment, or "UNKNOWN" when the name has
\* no '-'; the date is the name's YYYY-MM-DD substring (the leftmost, when it has
\* several) when there is one and it is a calendar date, and otherwise one of the
\* two sentinels line 62 tests for.  regional-au-weekly-2023-06-15.csv gives
\* (AU, 2023-06-15); noformat.csv gives (UNKNOWN, a sentinel).
C8_ExtractorResult ==
    pc = "extracted" =>
        /\ Len(extracted) = 1
        /\ extracted[1].country =
              (IF DashPositions(file_name) = {} THEN "UNKNOWN"
               ELSE Upper(SecondSegment(file_name)))
        /\ LET M == { k \in 1..Len(file_name) : DatePatternAt(file_name, k) }
               k0 == CHOOSE k \in M : \A j \in M : k <= j
           IN  IF M # {} /\ IsCalendarDate(SubSeq(file_name, k0, k0 + 9))
               THEN extracted[1].date = SubSeq(file_name, k0, k0 + 9)
               ELSE extracted[1].date \in {"INVALID_DATE", "UNKNOWN"}
        /\ file_name = "regional-au-weekly-2023-06-15.csv" =>
              extracted[1] = [country |-> "AU", date |-> "2023-06-15"]
        /\ file_name = "noformat.csv" =>
              extracted[1] = [country |-> "UNKNOWN", date |-> "UNKNOWN"]

\* The extractors have returned (AU, 2023-06-15) for the example name.
C8_Witness ==
    /\ pc = "extracted"
    /\ file_name = "regional-au-weekly-2023-06-15.csv"
    /\ extracted = <<[country |-> "AU", date |-> "2023-06-15"]>>

(***************************************************************************)
(* Properties of the analyzers                                             *)
(***************************************************************************)

\* The (track, artist) pairs country C has in month m in table t.
TracksOfGroup(t, C, m) ==
    { <<t[k].track_name, t[k].artist_names>> :
        k \in { j \in 1..Len(t) : t[j].Country = C /\ SubSeq(t[j].Date[1], 1, 7) = m } }

\* The streams of one track of country C in month m in table t.
TrackTotal(t, C, m, tr) ==
    TotalOver(t, { k \in 1..Len(t) :
                     /\ t[k].Country = C
                     /\ SubSeq(t[k].Date[1], 1, 7) = m
                     /\ <<t[k].track_name, t[k].artist_names>> = tr })

\* C5 (as the claim states it): for every (country, month) group,
\* monthly_top_tracks.csv has at most TopK rows, and every row it has holds at
\* least the Total_Streams of every track of the group that it leaves out.
C5_TopTracksAreTheLargest ==
    Len(out.monthly_top_tracks) = 1 =>
        LET t == final_csv[1]
            res == out.monthly_top_tracks[1]
        IN  \A g \in 1..Len(t) :
                LET C == t[g].Country
                    m == SubSeq(t[g].Date[1], 1, 7)
                    kept == { r \in 1..Len(res) : res[r].Country = C /\ res[r].Month = m }
                    keptTracks == { <<res[r].track_name, res[r].artist_names>> : r \in kept }
                IN  /\ Cardinality(kept) <= TopK
                    /\ \A r \in kept :
                          \A tr \in TracksOfGroup(t, C, m) \ keptTracks :
                              res[r].Total_Streams >= TrackTotal(t, C, m, tr)

\* The folder of the example: track A with 100, 106 and 94 streams in three
\* successive months.
ExampleSeries == <<SeriesFile(1, 100), SeriesFile(2, 106), SeriesFile(3, 94)>>

\* C6: in growth_rate_analysis.csv every row's Trend_Status is Growth exactly when
\* its growth rate is greater than 5%, Decline exactly when it is less than -5%,
\* and Stable otherwise, so that a row whose streams are exactly 5% above or
\* below the p > 0 streams of the row before it in its series is Stable; the
\* first row of a series is Stable; and the series 100, 106, 94 is classified
\* Stable, Growth, Decline.
C6_TrendStatusThresholds ==
    Len(out.growth_rate_analysis) = 1 =>
        LET res == out.growth_rate_analysis[1]
            SameSeries(j, k) ==
                /\ res[j].Country = res[k].Country
                /\ res[j].artist_names = res[k].artist_names
                /\ res[j].track_name = res[k].track_name
        IN  /\ \A k \in 1..Len(res) :
                  res[k].Trend_Status \in {"Growth", "Decline", "Stable"}
            /\ \A k \in 1..Len(res) :
                  IF k > 1 /\ SameSeries(k - 1, k)
                  THEN LET p == res[k - 1].streams[1]
                           c == res[k].streams[1]
                       IN  p > 0 =>
                             /\ res[k].Trend_Status = "Growth" <=> 100 * (c - p) > 5 * p
                             /\ res[k].Trend_Status = "Decline" <=> 100 * (c - p) < (-5) * p
                  ELSE res[k].Trend_Status = "Stable"
            /\ csv_files = ExampleSeries =>
                  [k \in 1..Len(res) |-> res[k].Trend_Status] = <<"Stable", "Growth", "Decline">>

\* C11: when merge_by_country has run twice on the same input folder, with the
\* same files found in the same order, final_merged_data.csv and the per-country
\* files are, from the moment the second run has written them and at its end,
\* what the first run left: the second run overwrites, it does not append, and
\* it reads the same list of files as the first.
C11_SecondRunWritesTheSame ==
    Len(first_run) = 1 =>
        /\ pc \notin {"walk", "merge"} => country_csv = first_run[1].country_csv
        /\ pc \notin {"walk", "merge", "concat"} => final_csv = first_run[1].final_csv
        /\ pc \in {"done", "failed"} =>
              /\ final_csv = first_run[1].final_csv
              /\ country_csv = first_run[1].country_csv

\* A second run has completed and final_merged_data.csv holds rows of two files.
C11_Witness ==
    /\ Len(first_run) = 1
    /\ pc = "done"
    /\ Len(csv_files) = 2
    /\ Len(final_csv) = 1
    /\ Len(final_csv[1]) = 2

\* C12 (as the claim states it): while the analyzers run and after them, the
\* merged table they are given is the table that was written to
\* final_merged_data.csv: no analyzer adds a column to it or changes a value
\* of it.
C12_AnalyzersLeaveTableUnchanged ==
    pc \in {"by_month", "global_low", "artists", "month_year", "top", "common",
            "growth", "insights", "done"}
        => merged_data = final_csv[1]

\* Rows j and k of the growth table belong to one (country, artist, track) series.
InOneSeries(res, j, k) ==
    /\ res[j].Country = res[k].Country
    /\ res[j].artist_names = res[k].artist_names
    /\ res[j].track_name = res[k].track_name

\* The rows of k's series dated before row k.
EarlierInSeries(res, k) ==
    { j \in 1..Len(res) :
        /\ InOneSeries(res, j, k)
        /\ StrLess(res[j].Date[1], res[k].Date[1]) }

\* No other row of k's series has k's date.
DateIsItsOwn(res, k) ==
    \A j \in 1..Len(res) :
        (j # k /\ InOneSeries(res, j, k)) => res[j].Date[1] # res[k].Date[1]

\* C13: growth_rate_analysis.csv has one row for every row of the merged table.
\* In a series whose rows have different dates, the row of the earliest date
\* has Growth_Rate 0, and the Growth_Rate of every other row is 100 * (c - p) / p
\* where c is its streams and p > 0 the streams of the row of its series with the
\* latest date before its own (a missing streams value counting as 0): the rate
\* never comes from a row of another series.
C13_GrowthRateWithinSeries ==
    Len(out.growth_rate_analysis) = 1 =>
        LET res == out.growth_rate_analysis[1]
            t == final_csv[1]
            Streams0(r) == IF Len(r.streams) = 0 THEN 0 ELSE r.streams[1]
        IN  /\ Len(res) = Len(t)
            /\ \A i \in 1..Len(t) : \E k \in 1..Len(res) :
                  /\ res[k].Country = t[i].Country
                  /\ res[k].artist_names = t[i].artist_names
                  /\ res[k].track_name = t[i].track_name
                  /\ res[k].Date = t[i].Date
                  /\ res[k].streams = <<Streams0(t[i])>>
            /\ \A k \in 1..Len(res) :
                  (\A j \in 1..Len(res) : InOneSeries(res, j, k) => DateIsItsOwn(res, j)) =>
                      LET earlier == EarlierInSeries(res, k)
                          g == res[k].Growth_Rate
                      IN  IF earlier = {}
                          THEN g.num = 0 /\ g.den > 0
                          ELSE LET prev == CHOOSE j \in earlier : \A i \in earlier :
                                               i = j \/ StrLess(res[i].Date[1], res[j].Date[1])
                                   p == res[prev].streams[1]
                                   c == res[k].streams[1]
                               IN  p > 0 => (g.den > 0 /\ g.num * p = 100 * (c - p) * g.den)

\* Two files of two tracks each, the later file met first, have been analyzed:
\* the growth table has four rows, two of each series.
C13_Witness ==
    /\ csv_files = <<PairFile(2, <<106>>, <<100>>), PairFile(1, <<100>>, <<106>>)>>
    /\ Len(out.growth_rate_analysis) = 1
    /\ Len(out.growth_rate_analysis[1]) = 4
    /\ \E k \in 1..4 :
          /\ out.growth_rate_analysis[1][k].track_name = "B"
          /\ out.growth_rate_analysis[1][k].Growth_Rate.num < 0

====
